---- MODULE Spec2Model ----
(***************************************************************************)
(* RAG-Lab evaluation core: the /start, /:id/cancel routes and their       *)
(* background run (api/evaluation.ts), the Evaluator orchestrator          *)
(* (core/evaluator.ts), the three retrieval clients (integrations/*.ts)    *)
(* the retrieval-metric aggregation (core/metrics/retrieval.ts), the LLM   *)
(* judge and the dataset manager (core/dataset.ts), module discovery      *)
(* with its cache (modules/index.ts), the text client's response cache,    *)
(* several runs sharing the retrieval client, and the text-DB build jobs   *)
(* (api/textdb.ts).                                                        *)
(*                                                                         *)
(* JavaScript runs each handler and each promise continuation to its next  *)
(* await without interleaving, so one action is one such segment.          *)
(***************************************************************************)
EXTENDS Integers, Sequences, FiniteSets, TLC

\* ------------------------------------------------------------------ bounds
MaxCases == 2      \* test cases in a dataset
MaxKValues == 1    \* length of a caller-supplied kValues array
MaxK == 1          \* largest caller-supplied K
MaxFaults == 1     \* backend faults injected during one run
MaxDocs == 2       \* documents in a list handed to the metrics engine
MaxModules == 2    \* manifests handed to buildPythonModuleConfig, modules installed
MaxReply == 3      \* characters in a reply of the judge's chat service
MaxCalls == 3      \* discoverModules calls
MaxTicks == 1      \* steps of the clock
MaxInstalls == 1   \* modules added to the modules/ directory
MaxEdits == 1      \* test cases added to or removed from a loaded dataset
MaxTextCalls == 2  \* TextChromaDirectClient.query calls
MaxRuns == 2       \* runs in progress at the same time
MaxJobs == 2       \* text-DB build jobs

\* ------------------------------------------------------------ JS values
Undefined == "undefined"

\* an optional object or number that is not there (undefined / null)
Absent == <<>>

\* JS truthiness of an optional string (undefined and '' are falsy)
Truthy(s) == s # Undefined /\ s # ""

\* exact rational numbers stand for JS numbers; den = 0 is the result of x/0
Rat(n, d) == [num |-> n, den |-> d]

Zero == Rat(0, 1)

RECURSIVE GCD(_, _)
GCD(a, b) == IF b = 0 THEN a ELSE GCD(b, a % b)

\* the same number in lowest terms (x/0 is kept as it is)
Norm(a) ==
  IF a.den = 0 THEN a
  ELSE LET g == GCD(a.num, a.den) IN Rat(a.num \div g, a.den \div g)

RatAdd(a, b) == Norm(Rat(a.num * b.den + b.num * a.den, a.den * b.den))

RatDivInt(a, c) == Norm(Rat(a.num, a.den * c))

RatEq(a, b) == a.den # 0 /\ b.den # 0 /\ a.num * b.den = b.num * a.den

\* array.filter(pred) for a predicate given as the set of accepted elements
RECURSIVE Filter(_, _)
Filter(s, keep) ==
  IF s = <<>> THEN <<>>
  ELSE IF Head(s) \in keep THEN <<Head(s)>> \o Filter(Tail(s), keep)
       ELSE Filter(Tail(s), keep)

Range(s) == {s[i] : i \in 1..Len(s)}

\* obj[k] = v on a Map / Record<number, T>
Put(f, k, v) == (k :> v) @@ f

\* --------------------------------------------------------- configuration
Modes == {"api", "direct", "text"}

DEFAULT_CONFIG ==
  [kValues |-> <<5, 10, 15, 20>>, enableGenerationMetrics |-> TRUE,
   enableImageMetrics |-> FALSE, integrationMode |-> "text", queryTimeoutMs |-> 60000]

\* kValues arrays a caller may send
KSeqs == UNION {[1..n -> 1..MaxK] : n \in 0..MaxKValues}

\* Partial<EvaluationConfig>: every key may be absent
PartialConfigs ==
  {kv @@ im : kv \in {<<>>} \cup {[kValues |-> s] : s \in KSeqs},
              im \in {<<>>} \cup {[integrationMode |-> m] : m \in Modes}}

\* { ...DEFAULT_CONFIG, ...config }
MergeConfig(config) == config @@ DEFAULT_CONFIG

\* ---------------------------------------------------------------- datasets
\* The i-th test case of a dataset: its query is named by i; even ones expect
\* the keyword the backend's document holds, odd ones another keyword.
TestCaseAt(i) ==
  [id |-> i, query |-> i,
   groundTruth |-> [expectedKeywords |-> IF i % 2 = 0 THEN {"motor"} ELSE {"gear"},
                    referenceAnswer |-> IF i % 2 = 0 THEN "a motor" ELSE Undefined]]

Datasets == {[i \in 1..n |-> TestCaseAt(i)] : n \in 0..MaxCases}

\* `eval_${Date.now().toString(36)}_${random}`: two values it can take
Ids == {"eval_a", "eval_b"}

NoId == "none"

\* ------------------------------------------------- retrieval metrics engine
\* A document's content is the set of words in it; `includes` is membership.
calculateKeywordMatches(content, expectedKeywords) ==
  Cardinality({kw \in expectedKeywords : kw \in content})

\* relevantChunks and excludedKeywords are empty in the modelled datasets
judgeRelevance(document, groundTruth, index) ==
  LET n == Cardinality(groundTruth.expectedKeywords)
      matchCount == calculateKeywordMatches(document.content, groundTruth.expectedKeywords)
  IN [documentIndex |-> index,
      \* matchCount >= Math.max(1, n * 0.2)
      isRelevant |-> matchCount >= 1 /\ 5 * matchCount >= n,
      relevanceScore |-> IF n > 0 THEN Norm(Rat(matchCount, n)) ELSE Zero]

\* array.slice(0, k)
Slice(s, k) == SubSeq(s, 1, IF k < Len(s) THEN k ELSE Len(s))

\* the relevant documents divided by the documents looked at, not by k
precisionAtK_DividesByRetrieved(judgments, k) ==
  IF k = 0 THEN Zero
  ELSE Norm(Rat(Cardinality({i \in 1..Len(Slice(judgments, k)) : judgments[i].isRelevant}),
                Len(Slice(judgments, k))))

precisionAtK(judgments, k) ==
  IF k = 0 THEN Zero
  ELSE Norm(Rat(Cardinality({i \in 1..Len(Slice(judgments, k)) : judgments[i].isRelevant}), k))

recallAtK(documents, groundTruth, k) ==
  LET n == Cardinality(groundTruth.expectedKeywords)
      topK == Slice(documents, k)
      combinedContent == UNION {topK[i].content : i \in 1..Len(topK)}
  IN IF n = 0 THEN Zero
     ELSE Norm(Rat(calculateKeywordMatches(combinedContent, groundTruth.expectedKeywords), n))

hitRateAtK(judgments, k) ==
  \E i \in 1..Len(Slice(judgments, k)) : judgments[i].isRelevant

meanReciprocalRank(judgments) ==
  LET rel == {i \in 1..Len(judgments) : judgments[i].isRelevant}
  IN IF rel = {} THEN Zero
     ELSE Rat(1, CHOOSE i \in rel : \A j \in rel : i <= j)

f1AtK(precision, recall) ==
  LET sum == RatAdd(precision, recall)
  IN IF sum.num = 0 THEN Zero
     ELSE Norm(Rat(2 * precision.num * recall.num * sum.den,
                   precision.den * recall.den * sum.num))

\* ndcg (a logarithm) is left out; it is averaged exactly like the others
calculateRetrievalMetrics(documents, groundTruth, k) ==
  LET judgments == [i \in 1..Len(documents) |-> judgeRelevance(documents[i], groundTruth, i - 1)]
      precision == precisionAtK(judgments, k)
      recall == recallAtK(documents, groundTruth, k)
  IN [precisionAtK |-> precision,
      recallAtK |-> recall,
      hitRateAtK |-> hitRateAtK(judgments, k),
      mrr |-> meanReciprocalRank(judgments),
      f1AtK |-> f1AtK(precision, recall),
      k |-> k,
      documentsRetrieved |-> Len(documents)]

\* results.reduce((acc, r) => acc + field(r), 0) for one field
RECURSIVE SumField(_, _)
SumField(results, field) ==
  IF results = <<>> THEN Zero
  ELSE RatAdd(Head(results)[field], SumField(Tail(results), field))

RECURSIVE CountHits(_)
CountHits(results) ==
  IF results = <<>> THEN 0
  ELSE (IF Head(results).hitRateAtK THEN 1 ELSE 0) + CountHits(Tail(results))

ZeroAggregate ==
  [avgPrecision |-> Zero, avgRecall |-> Zero, avgF1 |-> Zero, avgMRR |-> Zero, hitRate |-> Zero]

aggregateRetrievalMetrics(results) ==
  IF Len(results) = 0 THEN ZeroAggregate
  ELSE LET count == Len(results)
       IN [avgPrecision |-> RatDivInt(SumField(results, "precisionAtK"), count),
           avgRecall |-> RatDivInt(SumField(results, "recallAtK"), count),
           avgF1 |-> RatDivInt(SumField(results, "f1AtK"), count),
           avgMRR |-> RatDivInt(SumField(results, "mrr"), count),
           hitRate |-> Norm(Rat(CountHits(results), count))]

\* ------------------------------------------------------- retrieval clients
\* What a backend call produced: the exit code of the subprocess (for the
\* HTTP client 0 stands for response.ok), whether stdout / the body is JSON,
\* and the fields of that JSON object.
RawOutcome(exitCode, json, error, contextParts, relatedImages) ==
  [exitCode |-> exitCode, json |-> json, error |-> error,
   context_parts |-> contextParts, related_images |-> relatedImages]

ErrorResponse(queryText, message) ==
  [query |-> queryText, response |-> "", documents |-> <<>>, images |-> <<>>,
   metadata |-> [error |-> message]]

\* the context_parts branch of transformResponse
TransformDocuments(raw) ==
  [i \in 1..Len(raw.context_parts) |-> [content |-> raw.context_parts[i], rank |-> i - 1]]

ApiTransformResponse(queryText, raw) ==
  [query |-> queryText, response |-> "", documents |-> TransformDocuments(raw),
   images |-> raw.related_images, metadata |-> [error |-> Undefined]]

FRCRAGApiClientQuery(queryText, raw) ==
  IF raw.exitCode # 0 THEN ErrorResponse(queryText, "FRC-RAG API error")
  ELSE IF ~raw.json THEN ErrorResponse(queryText, "JSON Parse error")
  ELSE IF Truthy(raw.error)
       THEN ErrorResponse(queryText, "FRC-RAG query error: " \o raw.error)
  ELSE ApiTransformResponse(queryText, raw)

DirectTransformResponse(queryText, raw) ==
  [query |-> queryText, response |-> "", documents |-> TransformDocuments(raw),
   images |-> raw.related_images, metadata |-> [error |-> Undefined]]

FRCRAGDirectClientQuery(queryText, raw) ==
  IF raw.exitCode # 0 THEN ErrorResponse(queryText, "Python script failed with exit code")
  ELSE IF ~raw.json THEN ErrorResponse(queryText, "JSON Parse error")
  ELSE DirectTransformResponse(queryText, raw)

TextTransformResponse(queryText, raw) ==
  [query |-> queryText, response |-> "", documents |-> TransformDocuments(raw),
   images |-> <<>>, metadata |-> [error |-> Undefined]]

\* enableCache is off (the Evaluator passes queryOptions?.enableCache, unset)
TextChromaDirectClientQuery(queryText, raw) ==
  IF raw.exitCode # 0 THEN ErrorResponse(queryText, "Text query script failed")
  ELSE IF ~raw.json THEN ErrorResponse(queryText, "JSON Parse error")
  ELSE TextTransformResponse(queryText, raw)

\* UnifiedRAGClient.query: options.mode || this.defaultMode
UnifiedRAGClientQuery(queryText, optionsMode, clientDefaultMode, raw) ==
  LET mode == IF Truthy(optionsMode) THEN optionsMode ELSE clientDefaultMode
  IN IF mode = "api" THEN FRCRAGApiClientQuery(queryText, raw)
     ELSE IF mode = "direct" THEN FRCRAGDirectClientQuery(queryText, raw)
     ELSE TextChromaDirectClientQuery(queryText, raw)

\* `this.timeout = 60000`, the HTTP client's AbortSignal.timeout(this.timeout)
FRCRAGApiClientTimeout == 60000

\* a call without a timeout: the await ends only when the backend answers
NoTimeout == 0

\* The timeout the backend call of UnifiedRAGClient.query is made with: the
\* HTTP client's own, none on the subprocess the other two clients spawn.
UnifiedRAGClientQueryTimeout(optionsMode, clientDefaultMode) ==
  LET mode == IF Truthy(optionsMode) THEN optionsMode ELSE clientDefaultMode
  IN IF mode = "api" THEN FRCRAGApiClientTimeout ELSE NoTimeout

\* ------------------------------------------------------------- LLM judge
\* A reply is a string, modelled as a sequence of characters; the words
\* "score" and "reasoning" count as one character each, "LF" is a line feed
\* and "x" any other letter.
NaN == Rat(0, 0)

Digits == {"0", "1", "8"}

NumChars == Digits \cup {"."}

Space == {" ", "LF"}

ReplyChars == {"score", "reasoning", ":", "x", "/"} \cup NumChars \cup Space

DigitValue(c) == IF c = "0" THEN 0 ELSE IF c = "1" THEN 1 ELSE 8

\* the first index from p on whose character is not in set (Len + 1 if none)
RECURSIVE SkipWhile(_, _, _)
SkipWhile(str, p, set) ==
  IF p <= Len(str) /\ str[p] \in set THEN SkipWhile(str, p + 1, set) ELSE p

Min(S) == CHOOSE x \in S : \A y \in S : x <= y

RECURSIVE DigitsValue(_)
DigitsValue(ds) ==
  IF ds = <<>> THEN 0
  ELSE 10 * DigitsValue(SubSeq(ds, 1, Len(ds) - 1)) + DigitValue(ds[Len(ds)])

RECURSIVE Pow10(_)
Pow10(n) == IF n = 0 THEN 1 ELSE 10 * Pow10(n - 1)

\* parseFloat of a string of digits and dots: the longest prefix that is a
\* decimal literal, NaN when there is none
parseFloat(g) ==
  LET i1 == SkipWhile(g, 1, Digits)
      intPart == SubSeq(g, 1, i1 - 1)
      hasDot == i1 <= Len(g) /\ g[i1] = "."
      f1 == IF hasDot THEN SkipWhile(g, i1 + 1, Digits) ELSE i1
      frac == IF hasDot THEN SubSeq(g, i1 + 1, f1 - 1) ELSE <<>>
  IN IF intPart = <<>> /\ frac = <<>> THEN NaN
     ELSE Norm(Rat(DigitsValue(intPart \o frac), Pow10(Len(frac))))

\* match[1] of /score[:\s]*([0-9.]+)/i, <<>> without a match
MatchScoreLabel(str) ==
  LET starts == {i \in 1..Len(str) :
                   /\ str[i] = "score"
                   /\ LET j == SkipWhile(str, i + 1, {":"} \cup Space)
                      IN j <= Len(str) /\ str[j] \in NumChars}
  IN IF starts = {} THEN <<>>
     ELSE LET j == SkipWhile(str, Min(starts) + 1, {":"} \cup Space)
          IN SubSeq(str, j, SkipWhile(str, j, NumChars) - 1)

\* match[1] of /([0-9.]+)\s*\/\s*10/ (denominator <<"1", "0">>) and of
\* /([0-9.]+)\s*\/\s*1/ (denominator <<"1">>), <<>> without a match
MatchOutOf(str, denominator) ==
  LET starts == {p \in 1..Len(str) :
                   /\ str[p] \in NumChars
                   /\ LET a == SkipWhile(str, SkipWhile(str, p, NumChars), Space)
                          b == SkipWhile(str, a + 1, Space)
                      IN /\ a <= Len(str)
                         /\ str[a] = "/"
                         /\ b + Len(denominator) - 1 <= Len(str)
                         /\ SubSeq(str, b, b + Len(denominator) - 1) = denominator}
  IN IF starts = {} THEN <<>>
     ELSE SubSeq(str, Min(starts), SkipWhile(str, Min(starts), NumChars) - 1)

\* match[1] of /^([0-9.]+)/m, <<>> without a match
MatchLineStart(str) ==
  LET starts == {p \in 1..Len(str) :
                   (p = 1 \/ str[p - 1] = "LF") /\ str[p] \in NumChars}
  IN IF starts = {} THEN <<>>
     ELSE SubSeq(str, Min(starts), SkipWhile(str, Min(starts), NumChars) - 1)

\* string.trim()
RECURSIVE Trim(_)
Trim(str) ==
  IF str = <<>> THEN str
  ELSE IF Head(str) \in Space THEN Trim(Tail(str))
  ELSE IF str[Len(str)] \in Space THEN Trim(SubSeq(str, 1, Len(str) - 1))
  ELSE str

\* parsed > 1 ? parsed / 10 : parsed, then Math.max(0, Math.min(1, score));
\* every comparison with NaN is false and Math.min / Math.max keep NaN
NormalizeScore(parsed) ==
  IF parsed.den = 0 THEN NaN
  ELSE LET score == IF parsed.num > parsed.den THEN RatDivInt(parsed, 10) ELSE parsed
       IN IF score.num > score.den THEN Rat(1, 1) ELSE score

parseJudgment(response) ==
  LET m1 == MatchScoreLabel(response)
      m2 == MatchOutOf(response, <<"1", "0">>)
      m3 == MatchOutOf(response, <<"1">>)
      m4 == MatchLineStart(response)
      match == IF m1 # <<>> THEN m1 ELSE IF m2 # <<>> THEN m2
               ELSE IF m3 # <<>> THEN m3 ELSE m4
      trimmed == Trim(response)
      labels == {i \in 1..Len(response) : response[i] = "reasoning"}
      firstLF == {i \in 1..Len(trimmed) : trimmed[i] = "LF"}
  IN [score |-> IF match = <<>> THEN Zero ELSE NormalizeScore(parseFloat(match)),
      reasoning |->
        IF labels # {}
        THEN Trim(SubSeq(response,
                         SkipWhile(response, Min(labels) + 1, {":"} \cup Space),
                         Len(response)))
        ELSE IF firstLF # {}
        THEN Trim(SubSeq(trimmed, Min(firstLF) + 1, Len(trimmed)))
        ELSE response]

\* What a call of chatCompletion ends in: fetch rejects (no connection, or
\* the 60 s AbortSignal.timeout), the status is not ok, the body is not JSON,
\* or a JSON body whose message.content (or '') is the reply.
ChatFailures == {"fetch failed", "Ollama error: 500", "JSON Parse error"}

ChatOutcome(error, content) == [error |-> error, content |-> content]

\* evaluateFaithfulness from the point where chatCompletion has settled;
\* evaluateRelevancy and evaluateCorrectness have the same try / catch
evaluateFaithfulness(chat) ==
  IF chat.error # Undefined
  THEN [score |-> Zero, reasoning |-> <<"Evaluation failed: ", chat.error>>]
  ELSE parseJudgment(chat.content)

evaluateRelevancy(chat) ==
  IF chat.error # Undefined
  THEN [score |-> Zero, reasoning |-> <<"Evaluation failed: ", chat.error>>]
  ELSE parseJudgment(chat.content)

evaluateCorrectness(chat) ==
  IF chat.error # Undefined
  THEN [score |-> Zero, reasoning |-> <<"Evaluation failed: ", chat.error>>]
  ELSE parseJudgment(chat.content)

\* An LLMJudge as one query sees it: whether a model is configured
\* (isAvailable) and how the chat service answers the calls of that query.
Judge(available, chat) == [available |-> available, chat |-> chat]

\* LLMJudge.evaluateGeneration: correctness only with a reference answer
evaluateGeneration(chat, referenceAnswer) ==
  [faithfulness |-> evaluateFaithfulness(chat).score,
   answerRelevancy |-> evaluateRelevancy(chat).score,
   answerCorrectness |->
     IF Truthy(referenceAnswer) THEN evaluateCorrectness(chat).score ELSE Absent]

\* metrics/generation.ts: null when the judge is not available
evaluateGenerationMetrics(ragResponse, groundTruth, judge) ==
  IF ~judge.available THEN Absent
  ELSE evaluateGeneration(judge.chat, groundTruth.referenceAnswer)

\* sum and count of the answerCorrectness values that are there
RECURSIVE SumCorrectness(_)
SumCorrectness(results) ==
  IF results = <<>> THEN [sum |-> Zero, count |-> 0]
  ELSE LET rest == SumCorrectness(Tail(results))
           c == Head(results).answerCorrectness
       IN IF c = Absent THEN rest
          ELSE [sum |-> RatAdd(c, rest.sum), count |-> rest.count + 1]

aggregateGenerationMetrics(results) ==
  IF Len(results) = 0
  THEN [avgFaithfulness |-> Zero, avgRelevancy |-> Zero, avgCorrectness |-> Absent]
  ELSE LET count == Len(results)
           correctness == SumCorrectness(results)
       IN [avgFaithfulness |-> RatDivInt(SumField(results, "faithfulness"), count),
           avgRelevancy |-> RatDivInt(SumField(results, "answerRelevancy"), count),
           avgCorrectness |->
             IF correctness.count > 0
             THEN RatDivInt(correctness.sum, correctness.count) ELSE Absent]

\* ------------------------------------------------------------ image metrics
\* the count only; relevance and alignment of the images are left out
calculateImageMetrics(images) == [imageCount |-> Rat(Len(images), 1)]

aggregateImageMetrics(results) ==
  IF Len(results) = 0 THEN [avgImageCount |-> Zero]
  ELSE [avgImageCount |-> RatDivInt(SumField(results, "imageCount"), Len(results))]

\* --------------------------------------------------------------- Evaluator
ZeroRetrieval(k) ==
  [precisionAtK |-> Zero, recallAtK |-> Zero, hitRateAtK |-> FALSE, mrr |-> Zero,
   f1AtK |-> Zero, k |-> k, documentsRetrieved |-> 0]

\* the catch branch of evaluateSingleQuery
FailedQueryResult(testCase, k, message) ==
  [testCaseId |-> testCase.id, query |-> testCase.query,
   ragResponse |-> [query |-> testCase.query, response |-> "", documents |-> <<>>,
                    images |-> <<>>, metadata |-> [error |-> Undefined]],
   metrics |-> [retrieval |-> ZeroRetrieval(k), generation |-> Absent, image |-> Absent],
   error |-> message]

\* a generation structure filled in also when the judge is not available
calculateAllMetrics_ZeroFilled(cfg, judge, ragResponse, testCase, k) ==
  [retrieval |-> calculateRetrievalMetrics(ragResponse.documents, testCase.groundTruth, k),
   generation |->
     IF cfg.enableGenerationMetrics
     THEN IF judge.available
          THEN evaluateGenerationMetrics(ragResponse, testCase.groundTruth, judge)
          ELSE [faithfulness |-> Zero, answerRelevancy |-> Zero,
                answerCorrectness |-> Absent]
     ELSE Absent,
   image |->
     IF cfg.enableImageMetrics /\ Len(ragResponse.images) > 0
     THEN calculateImageMetrics(ragResponse.images)
     ELSE Absent]

calculateAllMetrics(cfg, judge, ragResponse, testCase, k) ==
  [retrieval |-> calculateRetrievalMetrics(ragResponse.documents, testCase.groundTruth, k),
   generation |->
     IF cfg.enableGenerationMetrics /\ judge.available
     THEN evaluateGenerationMetrics(ragResponse, testCase.groundTruth, judge)
     ELSE Absent,
   image |->
     IF cfg.enableImageMetrics /\ Len(ragResponse.images) > 0
     THEN calculateImageMetrics(ragResponse.images)
     ELSE Absent]

\* evaluateSingleQuery from the point where ragClient.query has answered
evaluateSingleQuery(cfg, judge, testCase, k, ragResponse) ==
  IF Truthy(ragResponse.metadata.error)
  THEN FailedQueryResult(testCase, k, ragResponse.metadata.error)
  ELSE [testCaseId |-> testCase.id, query |-> testCase.query,
        ragResponse |-> ragResponse,
        metrics |-> calculateAllMetrics(cfg, judge, ragResponse, testCase, k),
        error |-> Undefined]

\* the filter forgotten: every result is averaged
ValidResults_NoFilter(results) == results

\* results.filter(r => !r.error)
ValidResults(results) ==
  Filter(results, {r \in Range(results) : ~Truthy(r.error)})

\* validResults.filter(r => r.metrics[family]).map(r => r.metrics[family])
MetricsOfFamily(validResults, family) ==
  LET having == Filter(validResults,
                       {r \in Range(validResults) : r.metrics[family] # Absent})
  IN [i \in 1..Len(having) |-> having[i].metrics[family]]

aggregateMetricsForK(results) ==
  LET validResults == ValidResults(results)
      retrievalMetrics == [i \in 1..Len(validResults) |-> validResults[i].metrics.retrieval]
      generationMetrics == MetricsOfFamily(validResults, "generation")
      imageMetrics == MetricsOfFamily(validResults, "image")
  IN [retrieval |-> aggregateRetrievalMetrics(retrievalMetrics),
      generation |-> IF Len(generationMetrics) > 0
                     THEN aggregateGenerationMetrics(generationMetrics) ELSE Absent,
      image |-> IF Len(imageMetrics) > 0
                THEN aggregateImageMetrics(imageMetrics) ELSE Absent]

\* successfulQueries / failedQueries of the summary
CountWhere(results, keep) == Len(Filter(results, keep))

\* successfulQueries counted without the `!r.error` test
EvaluationResult_CountsAll(id, cfg, allResults, aggregates) ==
  [id |-> id,
   config |-> cfg,
   results |-> allResults,
   aggregateMetrics |-> aggregates,
   summary |-> [totalQueries |-> Len(allResults),
                successfulQueries |-> Len(allResults),
                failedQueries |->
                  CountWhere(allResults, {r \in Range(allResults) : Truthy(r.error)})]]

\* the EvaluationResult evaluateDataset returns
EvaluationResult(id, cfg, allResults, aggregates) ==
  [id |-> id,
   config |-> cfg,
   results |-> allResults,
   aggregateMetrics |-> aggregates,
   summary |-> [totalQueries |-> Len(allResults),
                successfulQueries |->
                  CountWhere(allResults, {r \in Range(allResults) : ~Truthy(r.error)}),
                failedQueries |->
                  CountWhere(allResults, {r \in Range(allResults) : Truthy(r.error)})]]

\* the loops without the abort check
RECURSIVE RunLoop_NoAbortCheck(_, _, _, _)
RunLoop_NoAbortCheck(L, kValues, testCases, signalAborted) ==
  IF L.kIdx > Len(kValues) THEN [L EXCEPT !.outcome = "return"]
  ELSE IF L.tcIdx > Len(testCases)
       THEN RunLoop_NoAbortCheck(
              [L EXCEPT
                 !.aggregateMetrics =
                    Put(@, kValues[L.kIdx], aggregateMetricsForK(L.kResults)),
                 !.kIdx = @ + 1, !.tcIdx = 1, !.kResults = <<>>],
              kValues, testCases, signalAborted)
  ELSE [L EXCEPT !.outcome = "await", !.testCase = testCases[L.tcIdx]]

\* the abort check made once per K value instead of once per test case
RECURSIVE RunLoop_CheckPerK(_, _, _, _)
RunLoop_CheckPerK(L, kValues, testCases, signalAborted) ==
  IF L.kIdx > Len(kValues) THEN [L EXCEPT !.outcome = "return"]
  ELSE IF L.tcIdx > Len(testCases)
       THEN RunLoop_CheckPerK(
              [L EXCEPT
                 !.aggregateMetrics =
                    Put(@, kValues[L.kIdx], aggregateMetricsForK(L.kResults)),
                 !.kIdx = @ + 1, !.tcIdx = 1, !.kResults = <<>>],
              kValues, testCases, signalAborted)
  ELSE IF signalAborted /\ L.tcIdx = 1 THEN [L EXCEPT !.outcome = "throw"]
  ELSE [L EXCEPT !.outcome = "await", !.testCase = testCases[L.tcIdx]]

\* The two nested for-loops of evaluateDataset, run from the top of the
\* iteration (kIdx, tcIdx) to the next await (a query is issued), to the
\* return after the last K, or to the throw of 'Evaluation cancelled'.
RECURSIVE RunLoop(_, _, _, _)
RunLoop(L, kValues, testCases, signalAborted) ==
  IF L.kIdx > Len(kValues) THEN [L EXCEPT !.outcome = "return"]
  ELSE IF L.tcIdx > Len(testCases)
       THEN RunLoop([L EXCEPT
                       !.aggregateMetrics =
                          Put(@, kValues[L.kIdx], aggregateMetricsForK(L.kResults)),
                       !.kIdx = @ + 1, !.tcIdx = 1, !.kResults = <<>>],
                    kValues, testCases, signalAborted)
  ELSE IF signalAborted THEN [L EXCEPT !.outcome = "throw"]
  ELSE [L EXCEPT !.outcome = "await", !.testCase = testCases[L.tcIdx]]

\* ------------------------------------------------------------------- state
VARIABLES
  runningEvaluations,  \* Map evalId -> EvaluationStatus of the entry
  statusLog,           \* every value assigned to status.status, in order
  startResponse,       \* body of the 200 answer of POST /start
  dataset,             \* testCases of the dataset loaded by /start (the cached object)
  config,              \* Evaluator.config
  abortController,     \* Evaluator.abortController: "null" or "ctrl"
  aborted,             \* signal.aborted of the controller evaluateDataset made
  defaultMode,         \* ragClient.defaultMode
  taskId,              \* evalId captured by the background task
  ev,                  \* locals of the evaluateDataset invocation
  pc,                  \* where the background task is waiting
  result,              \* what evaluateDataset returned, <<>> before that
  files,               \* RESULTS_DIR: file name (id) -> content
  faults,              \* backend faults injected so far
  backendLog,          \* history: what the backend answered, query by query
  responseLog,         \* history: what ragClient.query returned, query by query
  flagSetAt,           \* history: <<kIdx, tcIdx>> in flight when the flag was set
  loaded,              \* history: the test cases the dataset held when /start loaded it
  edits,               \* test cases added to or removed from the loaded dataset
  textCache,           \* TextChromaDirectClient.cache: cacheKey -> { at, value }
  textCalls,           \* TextChromaDirectClient.query calls waiting for their subprocess
  textServed,          \* history: what each finished query call returned
  runs,                \* several runs at once: run -> its status entry and its task
  evaluators,          \* their Evaluator objects: config.integrationMode, abortController
  clientMode,          \* ragClient.defaultMode, as those Evaluators set it
  jobs,                \* text-DB builds: job id -> its entry and its background task
  activeDb,            \* the job whose outputDir active.json points to
  call,                \* a library function applied on its own: arguments and result
  moduleCache,         \* modules/index.ts moduleCache, <<>> for null
  now,                 \* Date.now()
  registry,            \* number of modules in the modules/ directory
  discoveries,         \* discoverModules calls waiting for their registry process
  served,              \* history: what each finished discoverModules call returned
  cachedBy,            \* history: the call that wrote moduleCache, 0 if none
  preRefresh           \* history: calls in flight when a /refresh cleared the cache

\* the evaluation run started by POST /start
evalVars ==
  <<runningEvaluations, statusLog, startResponse, dataset, config, abortController,
    aborted, defaultMode, taskId, ev, pc, result, files, faults,
    backendLog, responseLog, flagSetAt, loaded>>

\* the library function applied on its own
fnVars == <<call>>

\* module discovery and its cache
modVars == <<moduleCache, now, registry, discoveries, served, cachedBy, preRefresh>>

\* what the evaluation run never touches
\* the response cache of the text client
textVars == <<textCache, textCalls, textServed>>

\* the state of the components added after the dataset edits
\* several runs and the objects they share
runVars == <<runs, evaluators, clientMode>>

\* text-DB build jobs
buildVars == <<jobs, activeDb>>

extraVars == <<textVars, runVars, buildVars>>

sideVars == <<fnVars, modVars, edits, extraVars>>

vars == <<evalVars, sideVars>>

\* no library function applied yet
NoCall == [fn |-> "none"]

NoLocals ==
  [evalId |-> NoId, kIdx |-> 1, tcIdx |-> 1, testCase |-> Absent, kResults |-> <<>>,
   allResults |-> <<>>,
   aggregateMetrics |-> <<>>, completedOperations |-> 0, totalOperations |-> 0,
   outcome |-> "none"]

Init ==
  /\ runningEvaluations = <<>>
  /\ statusLog = <<>>
  /\ startResponse = <<>>
  /\ dataset = <<>>
  /\ config = DEFAULT_CONFIG
  /\ abortController = "null"
  /\ aborted = FALSE
  /\ defaultMode = "text"
  /\ taskId = NoId
  /\ ev = NoLocals
  /\ pc = "idle"
  /\ result = <<>>
  /\ files = <<>>
  /\ faults = 0
  /\ backendLog = <<>>
  /\ responseLog = <<>>
  /\ flagSetAt = <<>>
  /\ loaded = <<>>
  /\ edits = 0
  /\ textCache = <<>>
  /\ textCalls = <<>>
  /\ textServed = <<>>
  /\ runs = <<>>
  /\ evaluators = <<>>
  /\ clientMode = "api"
  /\ jobs = <<>>
  /\ activeDb = 0
  /\ call = NoCall
  /\ moduleCache = Absent
  /\ now = 0
  /\ registry = 0
  /\ discoveries = <<>>
  /\ served = <<>>
  /\ cachedBy = 0
  /\ preRefresh = {}

\* `config?.kValues?.length || 4`
RouteKCount(cfg) ==
  IF "kValues" \in DOMAIN cfg /\ Len(cfg.kValues) # 0 THEN Len(cfg.kValues) ELSE 4

\* a callback that copies the completed count only
ProgressCallback_KeepsTotal(status, completed, total, currentQuery) ==
  [status EXCEPT !.progress =
     [completed |-> completed, total |-> status.progress.total,
      currentQuery |-> currentQuery]]

\* the onProgress callback /start hands to evaluateDataset
ProgressCallback(status, completed, total, currentQuery) ==
  [status EXCEPT !.progress =
     [completed |-> completed, total |-> total, currentQuery |-> currentQuery]]

\* a catch branch that rethrows without reporting progress
Continue_CatchSilent(id, status, log, cfg, testCases, R) ==
  /\ ev' = R
  /\ IF R.outcome = "await"
     THEN /\ runningEvaluations' =
               Put(runningEvaluations, id,
                   ProgressCallback(status, R.completedOperations, R.totalOperations,
                                    testCases[R.tcIdx].query))
          /\ statusLog' = log
          /\ abortController' = "ctrl"
          /\ result' = result
          /\ pc' = "query"
     ELSE IF R.outcome = "return"
     THEN /\ runningEvaluations' =
               Put(runningEvaluations, id,
                   ProgressCallback(status, R.totalOperations, R.totalOperations, 0))
          /\ statusLog' = log
          /\ abortController' = "null"
          /\ result' = <<EvaluationResult(R.evalId, cfg, R.allResults, R.aggregateMetrics)>>
          /\ pc' = "save"
     ELSE /\ runningEvaluations' =
               Put(runningEvaluations, id,
                   [status EXCEPT !.status = "failed", !.error = "Evaluation cancelled"])
          /\ statusLog' = Append(log, "failed")
          /\ abortController' = "null"
          /\ result' = result
          /\ pc' = "done"

\* evaluateDataset after the loops stopped at R, and what the background
\* task does with its outcome, up to the next await
Continue(id, status, log, cfg, testCases, R) ==
  /\ ev' = R
  /\ IF R.outcome = "await"
     THEN /\ runningEvaluations' =
               Put(runningEvaluations, id,
                   ProgressCallback(status, R.completedOperations, R.totalOperations,
                                    testCases[R.tcIdx].query))
          /\ statusLog' = log
          /\ abortController' = "ctrl"
          /\ result' = result
          /\ pc' = "query"
     ELSE IF R.outcome = "return"
     THEN /\ runningEvaluations' =
               Put(runningEvaluations, id,
                   ProgressCallback(status, R.totalOperations, R.totalOperations, 0))
          /\ statusLog' = log
          /\ abortController' = "null"
          /\ result' = <<EvaluationResult(R.evalId, cfg, R.allResults, R.aggregateMetrics)>>
          /\ pc' = "save"
     ELSE /\ runningEvaluations' =
               Put(runningEvaluations, id,
                   [ProgressCallback(status, R.completedOperations, R.totalOperations, 0)
                      EXCEPT !.status = "failed", !.error = "Evaluation cancelled"])
          /\ statusLog' = Append(log, "failed")
          /\ abortController' = "null"
          /\ result' = result
          /\ pc' = "done"

\* POST /start with a known dataset and a ready system: the handler from
\* `new Evaluator(config)` on, the background task and evaluateDataset up to
\* their first await, and the 200 answer.
Start(ds, cfg, routeId, generatedId) ==
  /\ pc = "idle"
  /\ LET merged == MergeConfig(cfg)
         status == [id |-> routeId, status |-> "running",
                    progress |-> [completed |-> 0, total |-> Len(ds) * RouteKCount(cfg),
                                  currentQuery |-> 0],
                    error |-> Undefined]
         L == [NoLocals EXCEPT !.evalId = generatedId,
                               !.totalOperations = Len(ds) * Len(merged.kValues)]
     IN /\ config' = merged
        /\ defaultMode' = merged.integrationMode
        /\ dataset' = ds
        /\ loaded' = ds
        /\ taskId' = routeId
        /\ aborted' = FALSE
        /\ Continue(routeId, status, <<"pending", "running">>, merged, ds,
                    RunLoop(L, merged.kValues, ds, FALSE))
        /\ startResponse' =
             <<[id |-> routeId,
                totalQueries |-> runningEvaluations'[routeId].progress.total]>>
  /\ UNCHANGED <<files, faults, backendLog, responseLog, flagSetAt, sideVars>>

\* what the retrieval backend can answer to one query of a run
BackendOk == RawOutcome(0, TRUE, Undefined, <<{"motor"}>>, <<>>)

BackendExit == RawOutcome(1, FALSE, Undefined, <<>>, <<>>)

BackendErrorField == RawOutcome(0, TRUE, "connection refused", <<>>, <<>>)

BackendOutcomes == {BackendOk, BackendExit, BackendErrorField}

IsFault(raw) == raw # BackendOk

\* the judge of the runs /start lets through with generation metrics on
\* (checkReadiness): a model is configured and the service answers a score
ReadyJudge == Judge(TRUE, ChatOutcome(Undefined, <<"score", ":", "1">>))

\* completedOperations++ made only for a result without an error
PushResult_CountsSuccessOnly(L, r) ==
  [L EXCEPT !.kResults = Append(@, r),
            !.allResults = Append(@, r),
            !.completedOperations = IF Truthy(r.error) THEN @ ELSE @ + 1,
            !.tcIdx = @ + 1]

\* kResults.push(result); allResults.push(result); completedOperations++
\* and the step of the inner for-loop to the next test case
PushResult(L, r) ==
  [L EXCEPT !.kResults = Append(@, r),
            !.allResults = Append(@, r),
            !.completedOperations = @ + 1,
            !.tcIdx = @ + 1]

\* The pending ragClient.query of the in-flight evaluateSingleQuery settles:
\* the rest of evaluateSingleQuery, the push of its result, and the loop up
\* to the next await, return or throw.
QueryDone(raw) ==
  /\ pc = "query"
  /\ IsFault(raw) => faults < MaxFaults
  /\ faults' = IF IsFault(raw) THEN faults + 1 ELSE faults
  /\ LET testCase == ev.testCase
         k == config.kValues[ev.kIdx]
         ragResponse == UnifiedRAGClientQuery(testCase.query, config.integrationMode,
                                              defaultMode, raw)
         r == evaluateSingleQuery(config, ReadyJudge, testCase, k, ragResponse)
         L == PushResult(ev, r)
     IN /\ Continue(taskId, runningEvaluations[taskId], statusLog, config, dataset,
                    RunLoop(L, config.kValues, dataset, aborted))
        /\ backendLog' = Append(backendLog, raw)
        /\ responseLog' = Append(responseLog, ragResponse)
  /\ UNCHANGED <<startResponse, dataset, config, aborted, defaultMode, taskId, files,
                 flagSetAt, loaded, sideVars>>

\* a background task that marks the run completed whatever saveResult did
SaveDone_CompletedAnyway(written) ==
  /\ pc = "save"
  /\ pc' = "done"
  /\ files' = IF written THEN Put(files, result[1].id, result[1]) ELSE files
  /\ runningEvaluations' =
       [runningEvaluations EXCEPT
          ![taskId].status = "completed",
          ![taskId].progress.completed = runningEvaluations[taskId].progress.total]
  /\ statusLog' = Append(statusLog, "completed")
  /\ UNCHANGED <<startResponse, dataset, config, abortController, aborted, defaultMode,
                 taskId, ev, result, faults, backendLog, responseLog, flagSetAt,
                 loaded, sideVars>>

\* saveResult(result) settles; the background task ends
SaveDone(written) ==
  /\ pc = "save"
  /\ pc' = "done"
  /\ IF written
     THEN /\ files' = Put(files, result[1].id, result[1])
          /\ runningEvaluations' =
               [runningEvaluations EXCEPT
                  ![taskId].status = "completed",
                  ![taskId].progress.completed = runningEvaluations[taskId].progress.total]
          /\ statusLog' = Append(statusLog, "completed")
     ELSE /\ files' = files
          /\ runningEvaluations' =
               [runningEvaluations EXCEPT
                  ![taskId].status = "failed",
                  ![taskId].error = "write failed"]
          /\ statusLog' = Append(statusLog, "failed")
  /\ UNCHANGED <<startResponse, dataset, config, abortController, aborted, defaultMode,
                 taskId, ev, result, faults, backendLog, responseLog, flagSetAt,
                 loaded, sideVars>>

\* POST /:id/cancel, its 200 branch (404 and 400 change nothing)
Cancel(id) ==
  /\ id \in DOMAIN runningEvaluations
  /\ runningEvaluations[id].status = "running"
  \* evaluator.cancel()
  /\ aborted' = IF abortController # "null" THEN TRUE ELSE aborted
  /\ flagSetAt' = IF abortController # "null" THEN <<ev.kIdx, ev.tcIdx>> ELSE flagSetAt
  /\ runningEvaluations' = [runningEvaluations EXCEPT ![id].status = "cancelled"]
  /\ statusLog' = Append(statusLog, "cancelled")
  /\ UNCHANGED <<startResponse, dataset, config, abortController, defaultMode, taskId,
                 ev, pc, result, files, faults, backendLog, responseLog, loaded,
                 sideVars>>

Next ==
  \/ \E ds \in Datasets, cfg \in PartialConfigs, routeId \in Ids, generatedId \in Ids :
       Start(ds, cfg, routeId, generatedId)
  \/ \E raw \in BackendOutcomes : QueryDone(raw)
  \/ \E written \in BOOLEAN : SaveDone(written)
  \/ \E id \in Ids : Cancel(id)

Spec == Init /\ [][Next]_vars

\* ---------------------------------------------- dataset edits during a run
\* dataset.testCases.splice(index, 1)
Splice(testCases, index) ==
  [j \in 1..(Len(testCases) - 1) |-> IF j < index THEN testCases[j] ELSE testCases[j + 1]]

\* testCases.findIndex(tc => tc.id === testCaseId), 0 for -1
FindIndex(testCases, testCaseId) ==
  LET hits == {j \in 1..Len(testCases) : testCases[j].id = testCaseId}
  IN IF hits = {} THEN 0 ELSE Min(hits)

\* POST /:id/test-cases on the dataset a run was started with: loadDataset
\* answers with the cached object and addTestCase pushes onto its testCases
AddTestCase(testCase) ==
  /\ pc # "idle"
  /\ edits < MaxEdits
  /\ dataset' = Append(dataset, testCase)
  /\ edits' = edits + 1
  /\ UNCHANGED <<runningEvaluations, statusLog, startResponse, config, abortController,
                 aborted, defaultMode, taskId, ev, pc, result, files, faults, backendLog,
                 responseLog, flagSetAt, loaded, fnVars, modVars, extraVars>>

\* DELETE /:id/test-cases/:testCaseId on that dataset; an unknown id changes
\* nothing
RemoveTestCase(testCaseId) ==
  /\ pc # "idle"
  /\ edits < MaxEdits
  /\ FindIndex(dataset, testCaseId) # 0
  /\ dataset' = Splice(dataset, FindIndex(dataset, testCaseId))
  /\ edits' = edits + 1
  /\ UNCHANGED <<runningEvaluations, statusLog, startResponse, config, abortController,
                 aborted, defaultMode, taskId, ev, pc, result, files, faults, backendLog,
                 responseLog, flagSetAt, loaded, fnVars, modVars, extraVars>>

NextEdit ==
  \/ Next
  \/ AddTestCase(TestCaseAt(MaxCases + edits + 1))
  \/ \E testCaseId \in 1..MaxCases : RemoveTestCase(testCaseId)

SpecEdit == Init /\ [][NextEdit]_vars

\* ------------------------------------- library functions applied on their own
\* words a document or a ground truth can hold
Words == {"motor", "gear"}

\* RetrievedDocument[] of at most MaxDocs documents
DocumentLists ==
  UNION {{[i \in 1..n |-> [content |-> c[i], rank |-> i - 1]] : c \in [1..n -> SUBSET Words]}
         : n \in 0..MaxDocs}

\* calculateRetrievalMetrics(documents, groundTruth, k), called once
ApplyCalculateRetrievalMetrics(documents, groundTruth, k) ==
  /\ call = NoCall
  /\ call' = [fn |-> "calculateRetrievalMetrics", documents |-> documents,
              groundTruth |-> groundTruth, k |-> k,
              out |-> calculateRetrievalMetrics(documents, groundTruth, k)]
  /\ UNCHANGED <<evalVars, modVars, edits, extraVars>>

\* configSchema of a manifest: no option, or one option with a default
ConfigSchemas == {<<>>, <<[key |-> "depth", default |-> 3]>>}

\* ModuleManifest[] of the modules 1..n
ManifestLists ==
  UNION {{[i \in 1..n |-> [id |-> i, enabledByDefault |-> e[i], configSchema |-> cs[i]]]
            : e \in [1..n -> BOOLEAN], cs \in [1..n -> ConfigSchemas]}
         : n \in 0..MaxModules}

\* ModuleState values a caller may supply
ModuleStates == {[enabled |-> e, config |-> c] : e \in BOOLEAN, c \in {<<>>, [depth |-> 5]}}

\* ModuleConfiguration.modules: a state for some of the modules
ModuleStateMaps == UNION {[ids -> ModuleStates] : ids \in SUBSET (1..MaxModules)}

\* Object.fromEntries(configSchema.map(opt => [opt.key, opt.default]))
SchemaDefaults(configSchema) ==
  [key \in {configSchema[i].key : i \in 1..Len(configSchema)} |->
     (CHOOSE opt \in Range(configSchema) : opt.key = key).default]

\* the for-loop of buildPythonModuleConfig over manifests[from..]
RECURSIVE buildPythonModuleConfigFrom(_, _, _, _)
buildPythonModuleConfigFrom(modules, manifests, from, built) ==
  IF from > Len(manifests) THEN built
  ELSE LET manifest == manifests[from]
           entry == IF manifest.id \in DOMAIN modules
                    THEN [enabled |-> modules[manifest.id].enabled,
                          config |-> modules[manifest.id].config]
                    ELSE [enabled |-> manifest.enabledByDefault, config |-> <<>>]
       IN buildPythonModuleConfigFrom(modules, manifests, from + 1,
                                      Put(built, manifest.id, entry))

buildPythonModuleConfig(modules, manifests) ==
  buildPythonModuleConfigFrom(modules, manifests, 1, <<>>)

\* buildPythonModuleConfig(config, manifests), called once
ApplyBuildPythonModuleConfig(modules, manifests) ==
  /\ call = NoCall
  /\ call' = [fn |-> "buildPythonModuleConfig", modules |-> modules,
              manifests |-> manifests,
              out |-> buildPythonModuleConfig(modules, manifests)]
  /\ UNCHANGED <<evalVars, modVars, edits, extraVars>>

\* replies of at most MaxReply characters
Replies == UNION {[1..n -> ReplyChars] : n \in 0..MaxReply}

ChatOutcomes ==
  {ChatOutcome(e, <<>>) : e \in ChatFailures} \cup {ChatOutcome(Undefined, c) : c \in Replies}

\* llmJudge.evaluateFaithfulness(answer, context), called once
ApplyEvaluateFaithfulness(chat) ==
  /\ call = NoCall
  /\ call' = [fn |-> "evaluateFaithfulness", chat |-> chat,
              out |-> evaluateFaithfulness(chat)]
  /\ UNCHANGED <<evalVars, modVars, edits, extraVars>>

\* a backend answer with a related image next to the document
BackendOkImages == RawOutcome(0, TRUE, Undefined, <<{"motor"}>>, <<"photo.png">>)

PassBackendOutcomes == {BackendOk, BackendOkImages, BackendExit}

\* how the chat service answers the judge calls of one query
PassChatOutcomes ==
  {ChatOutcome("fetch failed", <<>>),
   ChatOutcome(Undefined, <<"score", ":", "1">>),
   ChatOutcome(Undefined, <<".", "8">>)}

\* configurations of an Evaluator built by a library caller, for one K
PassConfigs ==
  {MergeConfig([kValues |-> <<1>>, enableGenerationMetrics |-> g,
                enableImageMetrics |-> im, integrationMode |-> m])
     : g \in BOOLEAN, im \in BOOLEAN, m \in Modes}

\* One pass of evaluateDataset's inner loop, made by an Evaluator that was
\* not started through /start (no checkReadiness): every test case is
\* evaluated at k and the pass is aggregated.
evaluatePass(cfg, available, raws, chats) ==
  LET k == cfg.kValues[1]
      kResults ==
        [i \in 1..Len(raws) |->
           evaluateSingleQuery(cfg, Judge(available, chats[i]), TestCaseAt(i), k,
                               UnifiedRAGClientQuery(TestCaseAt(i).query,
                                                     cfg.integrationMode,
                                                     cfg.integrationMode, raws[i]))]
  IN [results |-> kResults, aggregate |-> aggregateMetricsForK(kResults)]

ApplyEvaluatePass(cfg, available, raws, chats) ==
  /\ call = NoCall
  /\ call' = [fn |-> "evaluatePass", config |-> cfg, judgeAvailable |-> available,
              out |-> evaluatePass(cfg, available, raws, chats)]
  /\ UNCHANGED <<evalVars, modVars, edits, extraVars>>

\* What the chat service answers to the structured-query request: the fetch
\* fails (network, the 60 s timeout), a status that is not ok, or a content
\* of one of these shapes: prose without braces, an object cut short, the
\* JSON texts null and 5, or an object, possibly wrapped in prose, with its
\* search (Undefined: not a string) and filter
RewriteReply(fetch, shape, search, filter) ==
  [fetch |-> fetch, shape |-> shape, search |-> search, filter |-> filter]

RewriteReplies ==
  {RewriteReply(f, "none", Undefined, Absent) : f \in {"network", "timeout", "status"}}
  \cup {RewriteReply("ok", sh, Undefined, Absent)
          : sh \in {"prose", "truncated", "null", "number"}}
  \cup {RewriteReply("ok", "object", se, fi)
          : se \in {Undefined, "", "motor"},
            fi \in {Absent, [team |-> "254"], [team |-> "254", color |-> "red"],
                    [team |-> ""]}}

\* sanitizeFilter: non-empty string values of the allowed keys
sanitizeFilter(filter) ==
  [key \in {g \in DOMAIN filter \cap {"season", "team", "doc_id"} : filter[g] # ""}
     |-> filter[key]]

\* structuredQueryFromOllama(query): whether it threw, and what it returned
structuredQueryFromOllama(query, reply) ==
  IF reply.fetch # "ok"
  THEN [threw |-> TRUE, search |-> Undefined, filter |-> Absent]
  ELSE IF reply.shape \in {"prose", "truncated"}   \* JSON.parse throws
  THEN [threw |-> TRUE, search |-> Undefined, filter |-> Absent]
  ELSE IF reply.shape = "null"                     \* parsed.search of null
  THEN [threw |-> TRUE, search |-> Undefined, filter |-> Absent]
  ELSE IF reply.shape = "number"
  THEN [threw |-> FALSE, search |-> query, filter |-> sanitizeFilter(Absent)]
  ELSE [threw |-> FALSE,
        search |-> IF Truthy(reply.search) THEN reply.search ELSE query,
        filter |-> sanitizeFilter(reply.filter)]

\* Evaluator configurations of the rewrite step
RewriteConfigs ==
  {[integrationMode |-> m, enableStructuredQuery |-> e] : m \in Modes, e \in BOOLEAN}

\* a rewrite step whose failure is left to the catch of the whole query
RewriteQuery_NoCatch(cfg, query, reply) ==
  IF cfg.integrationMode = "text" /\ cfg.enableStructuredQuery
  THEN LET sq == structuredQueryFromOllama(query, reply)
       IN IF sq.threw
          THEN [threw |-> TRUE, queryForRetrieval |-> query, where |-> Absent]
          ELSE [threw |-> FALSE,
                queryForRetrieval |-> IF Truthy(sq.search) THEN sq.search ELSE query,
                where |-> sq.filter]
  ELSE [threw |-> FALSE, queryForRetrieval |-> query, where |-> Absent]

\* The head of evaluateSingleQuery, up to the call of ragClient.query:
\* whether an exception reaches the catch of the query, and the query text
\* and metadata filter retrieval is made with.
RewriteQuery(cfg, query, reply) ==
  IF cfg.integrationMode = "text" /\ cfg.enableStructuredQuery
  THEN LET sq == structuredQueryFromOllama(query, reply)
       IN IF sq.threw
          THEN [threw |-> FALSE, queryForRetrieval |-> query, where |-> Absent]
          ELSE [threw |-> FALSE,
                queryForRetrieval |-> IF Truthy(sq.search) THEN sq.search ELSE query,
                where |-> sq.filter]
  ELSE [threw |-> FALSE, queryForRetrieval |-> query, where |-> Absent]

\* the head of evaluateSingleQuery, run once
ApplyRewriteQuery(cfg, query, reply) ==
  /\ call = NoCall
  /\ call' = [fn |-> "rewriteQuery", cfg |-> cfg, query |-> query, reply |-> reply,
              out |-> RewriteQuery(cfg, query, reply)]
  /\ UNCHANGED <<evalVars, modVars, edits, extraVars>>

NextFn ==
  \/ \E cfg \in RewriteConfigs, reply \in RewriteReplies :
       ApplyRewriteQuery(cfg, "motor of team 254", reply)
  \/ \E cfg \in PassConfigs, available \in BOOLEAN, n \in 0..MaxCases :
       \E raws \in [1..n -> PassBackendOutcomes], chats \in [1..n -> PassChatOutcomes] :
         ApplyEvaluatePass(cfg, available, raws, chats)
  \/ \E chat \in ChatOutcomes : ApplyEvaluateFaithfulness(chat)
  \/ \E modules \in ModuleStateMaps, manifests \in ManifestLists :
       ApplyBuildPythonModuleConfig(modules, manifests)
  \/ \E documents \in DocumentLists, keywords \in SUBSET Words, k \in 0..(MaxDocs + 1) :
       ApplyCalculateRetrievalMetrics(documents, [expectedKeywords |-> keywords], k)

SpecFn == Init /\ [][NextFn]_vars

\* -------------------------------------------------------- module discovery
CACHE_TTL_MS == 60000

\* one step of the clock, in milliseconds
TickMs == 60000

\* the descriptors of getBuiltinSearchTypes, by id
getBuiltinSearchTypes == <<[id |-> "vector"], [id |-> "bm25"], [id |-> "hybrid"]>>

\* What the registry script prints with n modules installed: their manifests
\* and the search types of the registry, one more per module.
RegistryAnswer(n) ==
  [modules |-> [i \in 1..n |-> [id |-> i, enabledByDefault |-> TRUE, configSchema |-> <<>>]],
   searchTypes |-> getBuiltinSearchTypes \o [i \in 1..n |-> [id |-> "search_" \o ToString(i)]]]

\* `{ modules: [], searchTypes: getBuiltinSearchTypes() }`
Fallback == [modules |-> <<>>, searchTypes |-> getBuiltinSearchTypes]

\* how a spawned registry process ends: exit code 0 and JSON on stdout, a
\* non-zero exit code, or exit code 0 and something JSON.parse rejects
ProcessOutcomes == {"ok", "exit", "unparsable"}

\* `moduleCache && (Date.now() - moduleCache.lastUpdated) < CACHE_TTL_MS`
CacheFresh(cache, time) == cache # Absent /\ time - cache.lastUpdated < CACHE_TTL_MS

\* a settle that stores what it returns, the fallback included
discoverModulesSettle_CachesFallback(cache, outcome, answer, time) ==
  LET out == IF outcome = "ok" THEN answer ELSE Fallback
  IN [cache |-> [modules |-> out.modules, searchTypes |-> out.searchTypes,
                 lastUpdated |-> time],
      out |-> out, threw |-> FALSE]

\* discoverModules from the settling of `await proc.exited` to its return:
\* the new moduleCache, the value returned, and whether the call threw.
\* The throw of JSON.parse is caught by the catch block of the function.
discoverModulesSettle(cache, outcome, answer, time) ==
  IF outcome = "exit" THEN [cache |-> cache, out |-> Fallback, threw |-> FALSE]
  ELSE IF outcome = "unparsable" THEN [cache |-> cache, out |-> Fallback, threw |-> FALSE]
  ELSE [cache |-> [modules |-> answer.modules, searchTypes |-> answer.searchTypes,
                   lastUpdated |-> time],
        out |-> answer, threw |-> FALSE]

\* the number the next discoverModules call is known by
NextCallId == Len(served) + Cardinality(DOMAIN discoveries) + 1

\* the record of a finished call: who called, how its answer was obtained
\* ("cache", "spawn" for a spawn that threw, or the outcome of the process),
\* the answer, and the call that fetched it from the registry (0: nobody)
Returned(id, outcome, out, threw, fetchedBy) ==
  [caller |-> id, outcome |-> outcome, threw |-> threw, modules |-> out.modules,
   searchTypes |-> out.searchTypes, fetchedBy |-> fetchedBy]

\* discoverModules up to its first await, with `cache` in moduleCache: the
\* answer from a fresh cache, the catch of a spawn that throws, or the spawn
discoverModulesStart(cache, spawns) ==
  IF CacheFresh(cache, now)
  THEN /\ served' = Append(served,
                           Returned(NextCallId, "cache",
                                    [modules |-> cache.modules,
                                     searchTypes |-> cache.searchTypes],
                                    FALSE, cachedBy))
       /\ discoveries' = discoveries
  ELSE IF ~spawns
  THEN /\ served' = Append(served, Returned(NextCallId, "spawn", Fallback, FALSE, 0))
       /\ discoveries' = discoveries
  ELSE /\ served' = served
       /\ discoveries' = Put(discoveries, NextCallId,
                           [registryAtStart |-> registry, startedAt |-> now])

\* a caller of discoverModules: GET /api/modules and the other routes
Discover(spawns) ==
  /\ NextCallId <= MaxCalls
  /\ discoverModulesStart(moduleCache, spawns)
  /\ UNCHANGED <<moduleCache, now, registry, cachedBy, preRefresh, evalVars, fnVars, edits,
                 extraVars>>

\* POST /api/modules/refresh: clearModuleCache() and discoverModules() up to
\* its first await
Refresh(spawns) ==
  /\ NextCallId <= MaxCalls
  /\ moduleCache' = Absent
  /\ cachedBy' = 0
  /\ preRefresh' = preRefresh \cup DOMAIN discoveries
  /\ discoverModulesStart(Absent, spawns)
  /\ UNCHANGED <<now, registry, evalVars, fnVars, edits, extraVars>>

\* The registry process of call id ends, having listed the modules/ directory
\* when n modules were in it, at some time of its life.
DiscoverDone(id, outcome, n) ==
  /\ id \in DOMAIN discoveries
  /\ n \in discoveries[id].registryAtStart..registry
  /\ LET R == discoverModulesSettle(moduleCache, outcome, RegistryAnswer(n), now)
     IN /\ moduleCache' = R.cache
        /\ served' = Append(served,
                            Returned(id, outcome, R.out, R.threw,
                                     IF outcome = "ok" THEN id ELSE 0))
  /\ cachedBy' = IF outcome = "ok" THEN id ELSE cachedBy
  /\ discoveries' = [j \in DOMAIN discoveries \ {id} |-> discoveries[j]]
  /\ UNCHANGED <<now, registry, preRefresh, evalVars, fnVars, edits, extraVars>>

\* time passes
Tick ==
  /\ now < MaxTicks * TickMs
  /\ now' = now + TickMs
  /\ UNCHANGED <<moduleCache, registry, discoveries, served, cachedBy, preRefresh,
                 evalVars, fnVars, edits, extraVars>>

\* a module is added to the modules/ directory
Install ==
  /\ registry < MaxInstalls
  /\ registry' = registry + 1
  /\ UNCHANGED <<moduleCache, now, discoveries, served, cachedBy, preRefresh,
                 evalVars, fnVars, edits, extraVars>>

NextModules ==
  \/ \E spawns \in BOOLEAN : Discover(spawns)
  \/ \E spawns \in BOOLEAN : Refresh(spawns)
  \/ \E id \in 1..MaxCalls, outcome \in ProcessOutcomes, n \in 0..MaxInstalls :
       DiscoverDone(id, outcome, n)
  \/ Tick
  \/ Install

SpecModules == Init /\ [][NextModules]_vars

\* ---------------------------------------- text client: the response cache
\* `5 * 60 * 1000`
cacheTtlMs == 300000

\* one step of the clock while text queries are made, in milliseconds
TextTickMs == 150000

\* A query(queryText, options) call and the path resolveChromaPath finds for
\* it; k = 0 stands for an absent k. targetDocs and includeImageTypes are
\* left unset.
BaseTextQuery ==
  [chromaPath |-> "db1", queryText |-> 1, k |-> 10, enableFiltering |-> FALSE,
   retrievalMethod |-> "vector", bm25Variant |-> Undefined, where |-> Absent]

\* the base call and the calls that differ from it in one element
TextQueries ==
  {BaseTextQuery,
   [BaseTextQuery EXCEPT !.chromaPath = "db2"],
   [BaseTextQuery EXCEPT !.queryText = 2],
   [BaseTextQuery EXCEPT !.k = 0],
   [BaseTextQuery EXCEPT !.k = 5],
   [BaseTextQuery EXCEPT !.enableFiltering = TRUE],
   [BaseTextQuery EXCEPT !.retrievalMethod = "bm25"],
   [BaseTextQuery EXCEPT !.where = [team |-> "a"]]}

\* the constants at the head of query: `options?.k || 10` and the like
TextParams(q) ==
  [chromaPath |-> q.chromaPath, queryText |-> q.queryText,
   k |-> IF q.k # 0 THEN q.k ELSE 10,
   enableFiltering |-> q.enableFiltering,
   retrievalMethod |-> IF Truthy(q.retrievalMethod) THEN q.retrievalMethod ELSE "vector",
   bm25Variant |-> IF Truthy(q.bm25Variant) THEN q.bm25Variant ELSE "bm25",
   where |-> q.where]

\* JSON.stringify of the parameter object: a property that is undefined is
\* left out
JsonStringify(params) ==
  IF params.where = Absent
  THEN [f \in DOMAIN params \ {"where"} |-> params[f]]
  ELSE params

\* a key built without k
cacheKey_WithoutK(params) ==
  JsonStringify([f \in DOMAIN params \ {"k"} |-> params[f]])

cacheKey(params) == JsonStringify(params)

\* `hit && (Date.now() - hit.at) < this.cacheTtlMs`
TextCacheHit(cache, key, time) ==
  key \in DOMAIN cache /\ time - cache[key].at < cacheTtlMs

\* a settle that stores whatever it returns
TextQuerySettle_CachesErrors(cache, c, raw, time) ==
  LET out == TextChromaDirectClientQuery(c.params.queryText, raw)
  IN [cache |-> IF c.enableCache
                THEN Put(cache, c.key, [at |-> time, value |-> out, by |-> c, raw |-> raw])
                ELSE cache,
      out |-> out]

\* query from the settling of `await proc.exited` to its return: the new
\* cache and the value returned. An entry is { at, value }; `by` and `raw`
\* are history, the call that wrote it and what its subprocess produced.
TextQuerySettle(cache, c, raw, time) ==
  LET out == TextChromaDirectClientQuery(c.params.queryText, raw)
  IN [cache |-> IF raw.exitCode = 0 /\ raw.json /\ c.enableCache
                THEN Put(cache, c.key, [at |-> time, value |-> out, by |-> c, raw |-> raw])
                ELSE cache,
      out |-> out]

NextTextId == Len(textServed) + Cardinality(DOMAIN textCalls) + 1

\* query up to its first await: the answer from the cache, or the spawn
TextQueryStart(q, enableCache) ==
  /\ NextTextId <= MaxTextCalls
  /\ LET params == TextParams(q)
         c == [params |-> params, key |-> cacheKey(params), enableCache |-> enableCache]
     IN IF enableCache /\ TextCacheHit(textCache, c.key, now)
        THEN /\ textServed' = Append(textServed,
                                     [call |-> c, source |-> "cache", at |-> now,
                                      entry |-> textCache[c.key],
                                      value |-> textCache[c.key].value])
             /\ textCalls' = textCalls
        ELSE /\ textCalls' = Put(textCalls, NextTextId, c)
             /\ textServed' = textServed
  /\ UNCHANGED <<textCache, evalVars, fnVars, modVars, edits, runVars, buildVars>>

\* the subprocess of call id has ended
TextQueryDone(id, raw) ==
  /\ id \in DOMAIN textCalls
  /\ LET R == TextQuerySettle(textCache, textCalls[id], raw, now)
     IN /\ textCache' = R.cache
        /\ textServed' = Append(textServed,
                                [call |-> textCalls[id], source |-> "backend", at |-> now,
                                 entry |-> Absent, value |-> R.out])
  /\ textCalls' = [j \in DOMAIN textCalls \ {id} |-> textCalls[j]]
  /\ UNCHANGED <<evalVars, fnVars, modVars, edits, runVars, buildVars>>

\* time passes between text queries
TextTick ==
  /\ now < (MaxTicks + 1) * TextTickMs
  /\ now' = now + TextTickMs
  /\ UNCHANGED <<moduleCache, registry, discoveries, served, cachedBy, preRefresh,
                 evalVars, fnVars, edits, extraVars>>

NextText ==
  \/ \E q \in TextQueries, enableCache \in BOOLEAN : TextQueryStart(q, enableCache)
  \/ \E id \in 1..MaxTextCalls, raw \in BackendOutcomes : TextQueryDone(id, raw)
  \/ TextTick

SpecText == Init /\ [][NextText]_vars

\* ------------------------------------------------- several runs at once
\* `options?.mode || this.defaultMode` read from the client's default only
DispatchMode_DefaultOnly(optionsMode, clientDefaultMode) == clientDefaultMode

\* `mode || this.defaultMode` of UnifiedRAGClient.checkHealth and query
DispatchMode(optionsMode, clientDefaultMode) ==
  IF Truthy(optionsMode) THEN optionsMode ELSE clientDefaultMode

\* The top of an iteration of evaluateDataset's loop for a run whose
\* Evaluator holds the given controller: the end of the loops (the finally block
\* clears the controller, saveResult is awaited), the TypeError of
\* `this.abortController.signal` on null or the throw of 'Evaluation
\* cancelled' (both reach the catch of the background task), or the
\* dispatch of the next query.
IterationTop(run, controller, clientDefaultMode) ==
  IF run.completed = run.total
  THEN [run |-> [run EXCEPT !.pc = "save"], abortController |-> "null"]
  ELSE IF controller = "null"
  THEN [run |-> [run EXCEPT !.pc = "done", !.status = "failed", !.error = "TypeError"],
        abortController |-> "null"]
  ELSE IF controller = "aborted"
  THEN [run |-> [run EXCEPT !.pc = "done", !.status = "failed",
                            !.error = "Evaluation cancelled"],
        abortController |-> "null"]
  ELSE [run |-> [run EXCEPT !.pc = "query",
                            !.backend = DispatchMode(run.mode, clientDefaultMode)],
        abortController |-> controller]

\* POST /start up to `await evaluator.checkReadiness()`: new Evaluator(config)
\* sets the client's default mode, and checkHealth is dispatched
StartRun(mode, total) ==
  /\ Cardinality(DOMAIN runs) < MaxRuns
  /\ LET id == Cardinality(DOMAIN runs) + 1
     IN /\ evaluators' = Put(evaluators, id, [mode |-> mode, abortController |-> "null"])
        /\ clientMode' = mode
        /\ runs' = Put(runs, id,
                       [evaluator |-> id, mode |-> mode, status |-> "absent",
                        pc |-> "readiness", completed |-> 0, total |-> total,
                        backend |-> DispatchMode(mode, mode), error |-> Undefined])
  /\ UNCHANGED <<evalVars, fnVars, modVars, edits, textVars,
               buildVars>>

\* checkReadiness has answered: 503, or the entry in runningEvaluations,
\* the background task and evaluateDataset up to its first await
BeginRun(id, ready) ==
  /\ id \in DOMAIN runs
  /\ runs[id].pc = "readiness"
  /\ IF ~ready
     THEN /\ runs' = [runs EXCEPT ![id].pc = "done"]
          /\ evaluators' = evaluators
     ELSE LET T == IterationTop([runs[id] EXCEPT !.status = "running"], "live", clientMode)
          IN /\ runs' = [runs EXCEPT ![id] = T.run]
             /\ evaluators' =
                  [evaluators EXCEPT ![runs[id].evaluator].abortController =
                                        T.abortController]
  /\ UNCHANGED <<clientMode, evalVars, fnVars, modVars, edits, textVars,
               buildVars>>

\* a query of run id has settled: completedOperations++ and the loop up to
\* its next await
RunQueryDone(id) ==
  /\ id \in DOMAIN runs
  /\ runs[id].pc = "query"
  /\ LET T == IterationTop([runs[id] EXCEPT !.completed = @ + 1],
                           evaluators[runs[id].evaluator].abortController, clientMode)
     IN /\ runs' = [runs EXCEPT ![id] = T.run]
        /\ evaluators' =
             [evaluators EXCEPT ![runs[id].evaluator].abortController = T.abortController]
  /\ UNCHANGED <<clientMode, evalVars, fnVars, modVars, edits, textVars,
               buildVars>>

\* saveResult of run id has settled
RunSaveDone(id, written) ==
  /\ id \in DOMAIN runs
  /\ runs[id].pc = "save"
  /\ runs' = [runs EXCEPT ![id].pc = "done",
                          ![id].status = IF written THEN "completed" ELSE "failed",
                          ![id].error = IF written THEN @ ELSE "write failed"]
  /\ UNCHANGED <<evaluators, clientMode, evalVars, fnVars, modVars, edits, textVars,
               buildVars>>

\* a cancel that aborts the controller of every Evaluator
CancelRun_AbortsAll(id) ==
  /\ IF id \in DOMAIN runs /\ runs[id].status = "running"
     THEN /\ evaluators' =
               [e \in DOMAIN evaluators |->
                  [evaluators[e] EXCEPT !.abortController =
                                           IF @ = "null" THEN "null" ELSE "aborted"]]
          /\ runs' = [runs EXCEPT ![id].status = "cancelled"]
     ELSE UNCHANGED <<runs, evaluators>>
  /\ UNCHANGED <<clientMode, evalVars, fnVars, modVars, edits, textVars,
               buildVars>>

\* POST /:id/cancel: 404 for an unknown id, 400 for a run that is not
\* running, else evaluator.cancel() and status 'cancelled'
CancelRun(id) ==
  /\ IF id \in DOMAIN runs /\ runs[id].status = "running"
     THEN /\ evaluators' =
               [evaluators EXCEPT ![runs[id].evaluator].abortController =
                                     IF @ = "null" THEN "null" ELSE "aborted"]
          /\ runs' = [runs EXCEPT ![id].status = "cancelled"]
     ELSE UNCHANGED <<runs, evaluators>>
  /\ UNCHANGED <<clientMode, evalVars, fnVars, modVars, edits, textVars,
               buildVars>>

\* another Evaluator is constructed (GET /readiness, the module singleton)
\* or reconfigured with a mode: setDefaultMode(mode)
OtherEvaluator(mode) ==
  /\ clientMode' = mode
  /\ UNCHANGED <<runs, evaluators, evalVars, fnVars, modVars, edits, textVars,
               buildVars>>

NextRuns ==
  \/ \E mode \in Modes, total \in 1..MaxCases : StartRun(mode, total)
  \/ \E id \in 1..MaxRuns, ready \in BOOLEAN : BeginRun(id, ready)
  \/ \E id \in 1..MaxRuns : RunQueryDone(id)
  \/ \E id \in 1..MaxRuns, written \in BOOLEAN : RunSaveDone(id, written)
  \/ \E id \in 1..(MaxRuns + 1) : CancelRun(id)
  \/ \E mode \in Modes : OtherEvaluator(mode)

SpecRuns == Init /\ [][NextRuns]_vars

\* evaluateDataset is invoked on Evaluator e while an invocation on it is in
\* progress: `this.abortController = new AbortController()` and the loop up
\* to its first await
InvokeAgain(e, total) ==
  /\ Cardinality(DOMAIN runs) < MaxRuns
  /\ \E r \in DOMAIN runs : runs[r].evaluator = e /\ runs[r].pc = "query"
  /\ LET id == Cardinality(DOMAIN runs) + 1
         T == IterationTop([evaluator |-> e, mode |-> evaluators[e].mode,
                            status |-> "running", pc |-> "query", completed |-> 0,
                            total |-> total, backend |-> evaluators[e].mode,
                            error |-> Undefined],
                           "live", clientMode)
     IN /\ runs' = Put(runs, id, T.run)
        /\ evaluators' = [evaluators EXCEPT ![e].abortController = T.abortController]
  /\ UNCHANGED <<clientMode, evalVars, fnVars, modVars, edits, textVars,
               buildVars>>

NextShared ==
  \/ NextRuns
  \/ \E e \in 1..MaxRuns, total \in 1..MaxCases : InvokeAgain(e, total)

SpecShared == Init /\ [][NextShared]_vars

\* ------------------------------------------------- text-DB build jobs
ExitCodes == {0, 1}

\* POST /build: the job is stored as 'queued' and the background task runs
\* to its first await: status 'running', then spawn, which either returns
\* the process or throws; a throw ends the task, which has no catch
BuildStart(setActive, spawned) ==
  /\ Cardinality(DOMAIN jobs) < MaxJobs
  /\ jobs' = Put(jobs, Cardinality(DOMAIN jobs) + 1,
                 [status |-> "running",
                  task |-> IF spawned THEN "streams" ELSE "ended",
                  setActive |-> setActive, error |-> Undefined])
  /\ UNCHANGED <<activeDb, evalVars, fnVars, modVars, edits, textVars, runVars>>

\* the streams have drained and proc.exited has resolved
BuildExited(id, exitCode) ==
  /\ id \in DOMAIN jobs
  /\ jobs[id].task = "streams"
  /\ jobs' = [jobs EXCEPT
       ![id].status = IF exitCode = 0 THEN "completed" ELSE "failed",
       ![id].error = IF exitCode = 0 THEN @ ELSE "Build failed with exit code",
       ![id].task = IF exitCode = 0 /\ jobs[id].setActive THEN "persist" ELSE "ended"]
  /\ UNCHANGED <<activeDb, evalVars, fnVars, modVars, edits, textVars, runVars>>

\* setActiveDbPath(outputDir) has settled; a rejection ends the task
BuildPersistDone(id, written) ==
  /\ id \in DOMAIN jobs
  /\ jobs[id].task = "persist"
  /\ jobs' = [jobs EXCEPT ![id].task = "ended"]
  /\ activeDb' = IF written THEN id ELSE activeDb
  /\ UNCHANGED <<evalVars, fnVars, modVars, edits, textVars, runVars>>

NextBuild ==
  \/ \E setActive \in BOOLEAN, spawned \in BOOLEAN : BuildStart(setActive, spawned)
  \/ \E id \in 1..MaxJobs, exitCode \in ExitCodes : BuildExited(id, exitCode)
  \/ \E id \in 1..MaxJobs, written \in BOOLEAN : BuildPersistDone(id, written)

SpecBuild == Init /\ [][NextBuild]_vars

\* ================================================================== claims

\* C1: a run's status changes only along pending -> running,
\* running -> completed, running -> failed or running -> cancelled, so
\* completed, failed and cancelled are never left.
C1_StatusTransitions ==
  \A i \in 1..(Len(statusLog) - 1) :
    <<statusLog[i], statusLog[i + 1]>> \in
      {<<"pending", "running">>, <<"running", "completed">>,
       <<"running", "failed">>, <<"running", "cancelled">>}

\* C2: a run whose cancellation flag was set ends with status cancelled,
\* neither failed nor completed.
C2_CancelledRunEndsCancelled ==
  (pc = "done" /\ aborted) => runningEvaluations[taskId].status = "cancelled"

\* C3: when a run is completed, the results directory holds exactly one
\* file, named by the id /start returned, and the EvaluationResult in it
\* carries that id.
C3_ResultNamedByStartId ==
  (pc = "done" /\ runningEvaluations[taskId].status = "completed") =>
    /\ DOMAIN files = {startResponse[1].id}
    /\ files[startResponse[1].id].id = startResponse[1].id

\* C4: the totalQueries /start returns and the progress.total of the entry,
\* from the answer of /start on, are |testCases| x |kValues| of the
\* Evaluator's merged configuration.
C4_TotalIsCasesTimesKValues ==
  startResponse # <<>> =>
    /\ startResponse[1].totalQueries = Len(dataset) * Len(config.kValues)
    /\ runningEvaluations[taskId].progress.total = Len(dataset) * Len(config.kValues)

\* C4 witness: a started run over a non-empty dataset whose caller sent
\* kValues: [] (where `length || 4` and the merged configuration disagree).
C4_Witness ==
  /\ startResponse # <<>>
  /\ Len(dataset) > 0
  /\ config.kValues = <<>>
  /\ startResponse[1].totalQueries = 0

\* C5: a query the backend answered with an error (non-zero exit or an error
\* payload) gets all-zero retrieval metrics and the error string, the loop
\* goes on, and nothing but a cancellation or a failed write keeps the run
\* from completed.
C5_BackendErrorRecorded ==
  /\ \A i \in 1..Len(ev.allResults) :
       IsFault(backendLog[i]) =>
         /\ ev.allResults[i].metrics.retrieval =
              ZeroRetrieval(ev.allResults[i].metrics.retrieval.k)
         /\ Truthy(ev.allResults[i].error)
  /\ (pc = "done" /\ ~aborted) => Len(ev.allResults) = ev.totalOperations

\* C6: whenever the backend exits with a non-zero code or its payload has an
\* error field, the client of the run's mode returns an empty RAGResponse
\* whose metadata.error is set.
C6_ClientSurfacesError ==
  \A i \in 1..Len(backendLog) :
    (backendLog[i].exitCode # 0 \/ Truthy(backendLog[i].error)) =>
      /\ responseLog[i].documents = <<>>
      /\ responseLog[i].images = <<>>
      /\ Truthy(responseLog[i].metadata.error)

\* C7: the AggregateMetrics entry of every aggregated K is the mean over that
\* K's results without an error; with no such result it is the all-zero
\* structure, and no average is ever 0/0.
C7_AggregateOverValidOnly ==
  \A j \in 1..(ev.kIdx - 1) :
    (\A j2 \in (j + 1)..(ev.kIdx - 1) : config.kValues[j2] # config.kValues[j]) =>
      LET n == Len(dataset)
          pass == SubSeq(ev.allResults, (j - 1) * n + 1, j * n)
          valid == SelectSeq(pass, LAMBDA r : r.error = Undefined)
          hits == {i \in 1..Len(pass) :
                     pass[i].error = Undefined /\ pass[i].metrics.retrieval.hitRateAtK}
          agg == ev.aggregateMetrics[config.kValues[j]].retrieval
      IN /\ agg = aggregateRetrievalMetrics(
                    [i \in 1..Len(valid) |-> valid[i].metrics.retrieval])
         /\ Len(valid) = 0 => agg = ZeroAggregate
         /\ Len(valid) > 0 => RatEq(agg.hitRate, Rat(Cardinality(hits), Len(valid)))
         /\ \A f \in DOMAIN agg : agg[f].den # 0

\* C7 witness: an aggregated K with a failed query next to a successful one
\* that has a hit.
C7_Witness ==
  /\ ev.kIdx > 1
  /\ Len(dataset) = 2
  /\ Truthy(ev.allResults[1].error)
  /\ ev.allResults[2].error = Undefined
  /\ ev.allResults[2].metrics.retrieval.hitRateAtK
  /\ RatEq(ev.aggregateMetrics[config.kValues[1]].retrieval.hitRate, Rat(1, 1))

\* C8: in every EvaluationResult, totalQueries = successfulQueries +
\* failedQueries = |testCases| x |kValues|, failedQueries counts the results
\* with an error, and a run that was not cancelled fails only if the write of
\* the result file fails.
C8_SummaryCounts ==
  /\ result # <<>> =>
       LET r == result[1]
       IN /\ r.summary.totalQueries = r.summary.successfulQueries + r.summary.failedQueries
          /\ r.summary.totalQueries = Len(dataset) * Len(config.kValues)
          /\ r.summary.failedQueries =
               Cardinality({i \in 1..Len(r.results) : Truthy(r.results[i].error)})
  /\ (pc = "done" /\ ~aborted) =>
       /\ result # <<>>
       /\ runningEvaluations[taskId].status = "failed" =>
            runningEvaluations[taskId].error = "write failed"

\* C8 witness: a completed run with a failed query in its result file.
C8_Witness ==
  /\ pc = "done"
  /\ runningEvaluations[taskId].status = "completed"
  /\ result # <<>>
  /\ result[1].summary.failedQueries > 0
  /\ result[1].summary.successfulQueries > 0

\* C9: once the cancellation flag is set no query evaluation is started: the
\* number of queries started (finished ones plus the one in flight) stays.
C9_NoQueryStartedAfterFlag ==
  [][aborted =>
       Len(ev'.allResults) + (IF pc' = "query" THEN 1 ELSE 0)
         = Len(ev.allResults) + (IF pc = "query" THEN 1 ELSE 0)]_vars

\* C9 witness: the flag was set, the run has stopped, and queries were skipped.
C9_Witness ==
  /\ aborted
  /\ pc = "done"
  /\ Len(ev.allResults) = ev.completedOperations
  /\ ev.completedOperations < ev.totalOperations

\* C10 as stated: once the flag is set while a test case of the K value
\* number kIdx is unfinished, no entry is computed for that K or a later one
\* (kIdx counts the entries computed, plus one).
C10_NoAggregateAfterFlag ==
  aborted => ev.kIdx = flagSetAt[1]

\* C10 amended: no entry is computed for the current K when the flag is set
\* before the last test case of that K has started, and none for a later K.
C10_NoAggregateUnlessLastInFlight ==
  aborted =>
    ev.kIdx <= flagSetAt[1] + (IF flagSetAt[2] = Len(dataset) THEN 1 ELSE 0)

\* C10 witness: the flag was set before the last test case of a K started and
\* the run has stopped without an entry for that K.
C10_Witness ==
  /\ aborted
  /\ pc = "done"
  /\ flagSetAt[2] < Len(dataset)
  /\ ev.kIdx = flagSetAt[1]
  /\ config.kValues[ev.kIdx] \notin DOMAIN ev.aggregateMetrics

\* queries that had finished when the cancellation flag was set
FinishedAtFlag == (flagSetAt[1] - 1) * Len(dataset) + (flagSetAt[2] - 1)

\* C11 as stated: a run whose flag was set after n finished queries stops
\* with progress.completed = n.
C11_CompletedIsCountAtFlag ==
  (aborted /\ pc = "done") =>
    runningEvaluations[taskId].progress.completed = FinishedAtFlag

\* C11 amended: the flag is set while query n + 1 is in flight; that query
\* finishes, and the run stops with progress.completed = n + 1, the number of
\* queries that finished.
C11_CompletedCountsInFlightQuery ==
  (aborted /\ pc = "done") =>
    /\ runningEvaluations[taskId].progress.completed = FinishedAtFlag + 1
    /\ runningEvaluations[taskId].progress.completed = Len(ev.allResults)

\* C11 witness: the flag was set with one query finished, and the run was
\* stopped by the abort check with queries left over.
C11_Witness ==
  /\ aborted
  /\ pc = "done"
  /\ FinishedAtFlag = 1
  /\ runningEvaluations[taskId].error = "Evaluation cancelled"
  /\ runningEvaluations[taskId].progress.completed = 2
  /\ ev.totalOperations > 2

InUnitInterval(x) == x.den > 0 /\ 0 <= x.num /\ x.num <= x.den

\* C18: for every K from 0 on, also beyond the number of documents, and every
\* document list, precisionAtK and recallAtK lie in [0, 1], f1AtK is 0 when
\* both are 0, and no metric is NaN.
C18_MetricsInRange ==
  call.fn = "calculateRetrievalMetrics" =>
    LET m == call.out
    IN /\ InUnitInterval(m.precisionAtK)
       /\ InUnitInterval(m.recallAtK)
       /\ InUnitInterval(m.f1AtK)
       /\ InUnitInterval(m.mrr)
       /\ (m.precisionAtK.num = 0 /\ m.recallAtK.num = 0) => m.f1AtK = Zero

\* C18 witness: K is larger than the list, whose documents are all relevant.
C18_Witness ==
  /\ call.fn = "calculateRetrievalMetrics"
  /\ Len(call.documents) = 2
  /\ call.k = 3
  /\ call.out.precisionAtK = Rat(2, 3)
  /\ call.out.recallAtK = Rat(1, 1)

\* C17: a module without a caller-supplied state is configured with its
\* manifest's enabledByDefault and the defaults of its configSchema; a module
\* with a supplied state gets exactly that state.
C17_OmittedStateGetsSchemaDefaults ==
  call.fn = "buildPythonModuleConfig" =>
    \A i \in 1..Len(call.manifests) :
      LET manifest == call.manifests[i]
      IN /\ manifest.id \in DOMAIN call.out
         /\ call.out[manifest.id] =
              IF manifest.id \in DOMAIN call.modules
              THEN call.modules[manifest.id]
              ELSE [enabled |-> manifest.enabledByDefault,
                    config |-> SchemaDefaults(manifest.configSchema)]

\* the results of a pass that carry metrics of a family
HavingFamily(results, family) ==
  SelectSeq(results, LAMBDA r : r.metrics[family] # Absent)

\* C13: with generation metrics enabled and no judge available every
\* QueryMetrics.generation is undefined and the aggregate has no generation
\* entry; an aggregate's generation entry is there exactly when some query
\* computed generation metrics and it averages over those queries only; image
\* metrics are there exactly for error-free responses with images when enabled.
C13_GenerationSkippedWithoutJudge ==
  call.fn = "evaluatePass" =>
    LET results == call.out.results
        agg == call.out.aggregate
        gen == HavingFamily(results, "generation")
    IN /\ (call.config.enableGenerationMetrics /\ ~call.judgeAvailable) =>
            /\ \A i \in 1..Len(results) : results[i].metrics.generation = Absent
            /\ agg.generation = Absent
       /\ (agg.generation = Absent) <=> (Len(gen) = 0)
       /\ agg.generation # Absent =>
            /\ RatEq(agg.generation.avgFaithfulness,
                     RatDivInt(SumField([i \in 1..Len(gen) |-> gen[i].metrics.generation],
                                        "faithfulness"), Len(gen)))
            /\ agg.generation.avgFaithfulness.den # 0
       /\ \A i \in 1..Len(results) :
            /\ results[i].metrics.generation # Absent <=>
                 /\ call.config.enableGenerationMetrics
                 /\ call.judgeAvailable
                 /\ ~Truthy(results[i].error)
            /\ results[i].metrics.image # Absent <=>
                 /\ call.config.enableImageMetrics
                 /\ Len(results[i].ragResponse.images) > 0

\* C13 witness: generation metrics are enabled, no judge is available, and a
\* pass with error-free results was aggregated; one response carried images.
C13_Witness ==
  /\ call.fn = "evaluatePass"
  /\ call.config.enableGenerationMetrics
  /\ call.config.enableImageMetrics
  /\ ~call.judgeAvailable
  /\ Len(call.out.results) = 2
  /\ ~Truthy(call.out.results[1].error)
  /\ call.out.results[1].metrics.generation = Absent
  /\ call.out.results[2].metrics.image # Absent
  /\ call.out.aggregate.generation = Absent

\* C15: a judge call whose request or body parse fails yields score 0 with
\* the error text as reasoning, and a reply in which no score can be read (it
\* holds no digit) yields score 0 as well; the call never throws.
C15_JudgeFailureScoresZero ==
  call.fn = "evaluateFaithfulness" =>
    /\ call.chat.error # Undefined =>
         /\ call.out.score = Zero
         /\ call.out.reasoning = <<"Evaluation failed: ", call.chat.error>>
    /\ (call.chat.error = Undefined /\ Range(call.chat.content) \cap Digits = {}) =>
         call.out.score = Zero
\* C14: every retrieval-client call made during a run carries an explicit
\* timeout equal to the run's queryTimeoutMs, so that a backend which never
\* answers cannot block the query: while a query of the run is in flight,
\* its backend call has the timeout config.queryTimeoutMs.
C14_QueryCarriesRunTimeout ==
  pc = "query" =>
    UnifiedRAGClientQueryTimeout(config.integrationMode, defaultMode) = config.queryTimeoutMs

\* the failures of a discovery: the spawn throws, the process exits non-zero,
\* or its output is not JSON
DiscoveryFailures == {"spawn", "exit", "unparsable"}

\* C16: a discoverModules call that fails (the registry process cannot be
\* started, exits non-zero or prints unparsable output) returns without
\* throwing an empty module list and the built-in search types vector, bm25
\* and hybrid, and leaves nothing in the cache; an answer served from the
\* cache is always one a successful discovery fetched, so after a failure
\* the registry is queried again.
C16_DiscoveryFailureFallsBack ==
  [][Len(served') = Len(served) + 1 =>
       LET e == served'[Len(served')]
       IN /\ ~e.threw
          /\ e.outcome \in DiscoveryFailures =>
               /\ e.modules = <<>>
               /\ [i \in 1..Len(e.searchTypes) |-> e.searchTypes[i].id]
                    = <<"vector", "bm25", "hybrid">>
               /\ moduleCache' \in {moduleCache, Absent}
          /\ e.outcome = "cache" =>
               \E i \in 1..Len(served) :
                 /\ served[i].caller = e.fetchedBy
                 /\ served[i].outcome = "ok"
                 /\ served[i].modules = e.modules
                 /\ served[i].searchTypes = e.searchTypes]_vars

\* a discovery failed with unparsable output while an older answer was in
\* the cache, and a later one reached the registry and succeeded
C16_Witness ==
  \E i, j \in 1..Len(served) :
    /\ i < j
    /\ served[i].outcome = "unparsable"
    /\ served[j].outcome = "ok"
    /\ served[j].modules # <<>>
    /\ moduleCache # Absent

\* C20: POST /refresh is safe while a discovery is in flight: no call
\* throws, the cache holds modules and search types of one registry answer,
\* and an answer fetched by a discovery that was in flight when a refresh
\* cleared the cache is never served from the cache.
C20_RefreshSafeWithInFlightDiscovery ==
  /\ \A i \in 1..Len(served) :
       /\ ~served[i].threw
       /\ served[i].outcome = "cache" => served[i].fetchedBy \notin preRefresh
  /\ moduleCache # Absent =>
       \E n \in 0..MaxInstalls :
         /\ moduleCache.modules = RegistryAnswer(n).modules
         /\ moduleCache.searchTypes = RegistryAnswer(n).searchTypes

\* C19: the test cases of a run are those the dataset held when the run was
\* started, whatever is added to or removed from the dataset meanwhile: the
\* results of the current K are those of the loaded test cases in order,
\* the query in flight is the next loaded one, every finished K has one
\* result per loaded test case, and the total is their number times the
\* number of K values.
C19_TestCasesImmutableDuringRun ==
  pc # "idle" =>
    /\ \A j \in 1..Len(ev.kResults) :
         j <= Len(loaded) /\ ev.kResults[j].testCaseId = loaded[j].id
    /\ pc = "query" =>
         /\ Len(ev.kResults) < Len(loaded)
         /\ ev.testCase = loaded[Len(ev.kResults) + 1]
    /\ Len(ev.allResults) = (ev.kIdx - 1) * Len(loaded) + Len(ev.kResults)
    /\ ev.totalOperations = Len(loaded) * Len(config.kValues)
    /\ ev.completedOperations <= ev.totalOperations

\* C21: within one TTL window without a refresh the registry is queried at
\* most once, however many discovery calls are made: of two registry
\* processes in flight, with no refresh since the first was spawned, the
\* second was spawned at least CACHE_TTL_MS after the first.
C21_RegistryQueriedOncePerWindow ==
  \A i, j \in DOMAIN discoveries :
    (i < j /\ i \notin preRefresh) =>
      discoveries[j].startedAt - discoveries[i].startedAt >= CACHE_TTL_MS

\* C22: a text query is answered from the response cache only if the entry
\* was written for the very same parameter tuple (path, query, k, filter
\* flag, retrieval method and variant, metadata filter) and is younger than
\* cacheTtlMs: calls that differ in an element share no entry, and an
\* expired entry is not returned.
C22_CacheHitSameTupleAndFresh ==
  \A i \in 1..Len(textServed) :
    textServed[i].source = "cache" =>
      /\ textServed[i].entry.by.params = textServed[i].call.params
      /\ textServed[i].at - textServed[i].entry.at < cacheTtlMs

\* a call was answered from an entry written some time before
C22_Witness ==
  \E i \in 1..Len(textServed) :
    /\ textServed[i].source = "cache"
    /\ textServed[i].at > textServed[i].entry.at

\* C27: every cached entry is the response of a subprocess that exited with
\* code 0 and carries no metadata.error, so no cache hit returns an error
\* response; a call with the cache off is never answered from the cache and
\* writes no entry.
C27_FailedQueryNotCached ==
  /\ \A key \in DOMAIN textCache :
       /\ textCache[key].raw.exitCode = 0
       /\ ~Truthy(textCache[key].value.metadata.error)
       /\ textCache[key].by.enableCache
  /\ \A i \in 1..Len(textServed) :
       textServed[i].source = "cache" =>
         /\ ~Truthy(textServed[i].value.metadata.error)
         /\ textServed[i].call.enableCache

\* with an entry in the cache, a later call with the cache on failed
C27_Witness ==
  /\ textCache # <<>>
  /\ \E i \in 1..Len(textServed) :
       /\ textServed[i].call.enableCache
       /\ Truthy(textServed[i].value.metadata.error)

\* the replies with which the structured-query call fails: no answer, a
\* status that is not ok, or a content that is not a JSON object
RewriteFailures == {r \in RewriteReplies : r.fetch # "ok" \/ r.shape # "object"}

\* C23: when the structured-query call fails, no exception reaches the
\* query (it is not marked failed, nothing is aborted) and retrieval is made
\* with the original query text and an empty filter.
C23_RewriteFailureFallsBack ==
  (call.fn = "rewriteQuery" /\ call.reply \in RewriteFailures) =>
    /\ ~call.out.threw
    /\ call.out.queryForRetrieval = call.query
    /\ call.out.where = <<>>

\* a text-mode query with the rewrite on whose reply is the JSON text null
C23_Witness ==
  /\ call.fn = "rewriteQuery"
  /\ call.cfg.integrationMode = "text"
  /\ call.cfg.enableStructuredQuery
  /\ call.reply.shape = "null"

\* the file saveResult writes for the run's result is in RESULTS_DIR
ResultWritten ==
  /\ result # <<>>
  /\ result[1].id \in DOMAIN files
  /\ files[result[1].id] = result[1]

\* C24: a run whose status is completed has its result file written; a run
\* whose result could not be written is failed and was never completed.
C24_CompletedOnlyAfterResultWritten ==
  \A id \in DOMAIN runningEvaluations :
    /\ runningEvaluations[id].status = "completed" => ResultWritten
    /\ (pc = "done" /\ result # <<>> /\ ~ResultWritten) =>
         /\ runningEvaluations[id].status = "failed"
         /\ \A i \in 1..Len(statusLog) : statusLog[i] # "completed"

\* a run with queries is completed and its result is in the results directory
C24_Witness ==
  \E id \in DOMAIN runningEvaluations :
    /\ runningEvaluations[id].status = "completed"
    /\ ResultWritten
    /\ result[1].summary.totalQueries > 0

\* C25: in every status of a run, 0 <= progress.completed <= progress.total.
C25_CompletedWithinTotal ==
  \A id \in DOMAIN runningEvaluations :
    /\ 0 <= runningEvaluations[id].progress.completed
    /\ runningEvaluations[id].progress.completed <= runningEvaluations[id].progress.total

\* C26: a cancel request that stops a run leaves every other run as it was,
\* its status, its progress, its position in the loop and the controller of
\* its Evaluator; a request for an unknown run or for one that is not
\* running changes nothing.
C26_CancelStopsOnlyItsRun ==
  [][\A id \in 1..(MaxRuns + 1) :
       CancelRun(id) =>
         IF id \in DOMAIN runs /\ runs[id].status = "running"
         THEN /\ evaluators'[runs[id].evaluator].abortController # "live"
              /\ \A o \in DOMAIN runs \ {id} :
                   /\ runs'[o] = runs[o]
                   /\ evaluators'[runs[o].evaluator] = evaluators[runs[o].evaluator]
         ELSE UNCHANGED vars]_vars

\* two runs have a query in flight, one of them cancelled and the
\* controller of the other still untouched
C26_Witness ==
  \E a, b \in DOMAIN runs :
    /\ a # b
    /\ runs[a].status = "cancelled" /\ runs[a].pc = "query"
    /\ evaluators[runs[a].evaluator].abortController = "aborted"
    /\ runs[b].status = "running" /\ runs[b].pc = "query"
    /\ evaluators[runs[b].evaluator].abortController = "live"

C30_SharedEvaluatorInvocationsIndependent ==
  \A id \in DOMAIN runs :
    /\ runs[id].error # "TypeError"
    /\ runs[id].pc = "query" => evaluators[runs[id].evaluator].abortController # "null"

\* C28: a build job whose background task has ended is completed or failed,
\* also when the build process could not be started or the active-DB
\* pointer could not be written.
C28_EndedBuildIsCompletedOrFailed ==
  \A id \in DOMAIN jobs :
    jobs[id].task = "ended" => jobs[id].status \in {"completed", "failed"}

====
